---- MODULE Spec2Model ----
(***************************************************************************)
(* Model of the tasks backend: the MongoDB client manager (api/db/mongodb), *)
(* the two task stores (api/repositories/tasks_repo) and the v1 request     *)
(* handlers (api/routers/v1).                                               *)
(*                                                                          *)
(* Optional[T] values are sets with at most one element: None is {} and a   *)
(* present value v is {v}.                                                  *)
(***************************************************************************)
EXTENDS Integers, Sequences, FiniteSets, TLC

\* ---------------------------------------------------------------- bounds
\* Tasks created in one run of the whole program (Spec).
MaxTasks == 1
\* Tasks created in one run of the store-level specifications.
MaxStoreTasks == 2
\* Largest reading of the wall clock.
MaxClock == 1
\* MongoTasksStore.update coroutines suspended between their two awaits.
MaxInflight == 1
\* MongoTasksStore.update calls that run concurrently on one store.
MaxCalls == 2

\* Readings of the wall clock per millisecond (the clock is finer than the
\* millisecond a BSON datetime keeps).
TicksPerMs == 2

None == {}
Some(v) == {v}
TheValue(opt) == CHOOSE v \in opt : TRUE

\* Ids a request may name: every id a run can issue (some never exist).
TaskIds == 1..MaxStoreTasks
\* limit (Query ge=1, le=200) and offset (Query ge=0) of a list request.
Limits == {1, 2}
Offsets == {0, 1, 2}

\* What os.getenv("MONGODB_URI") can give: unset, the empty string, a URI.
EnvUris == {None, Some(""), Some("mongodb://db")}

\* What MONGODB_SERVER_SELECTION_TIMEOUT_MS can hold: unset, or some text.
EnvTimeouts == {None, Some(""), Some("abc"), Some("5.5"), Some("-"), Some("0"),
                Some("-5"), Some("49"), Some("50"), Some("51"), Some(" 70 "),
                Some("+7"), Some("1000")}

\* max(50, ...) and the fallback 500 of configure_from_env.
TimeoutFloorMs == 50
TimeoutDefaultMs == 500

\* TaskCreate after validation: title required, description defaults to None,
\* completed defaults to False.
TaskCreate == [title : {"a"}, description : {Some("d")}, completed : {FALSE}]

\* TaskUpdate after validation: every field Optional, default None.
TaskUpdate == [title : {None, Some("b")},
               description : {None},
               completed : {None, Some(TRUE)}]

\* Field(min_length=1, max_length=200) of title, Field(max_length=4000) of
\* description.
TitleMinLength == 1
TitleMaxLength == 200
DescriptionMaxLength == 4000

\* text repeated n times.
RECURSIVE Repeat(_, _)
Repeat(text, n) ==
    IF n = 0 THEN ""
    ELSE LET half == Repeat(text, n \div 2)
         IN  half \o half \o (IF n % 2 = 1 THEN text ELSE "")

\* A field of a JSON request body: left out, null, or a value.
Absent(default) == [given |-> "absent", value |-> default]
Null(default) == [given |-> "null", value |-> default]
Value(v) == [given |-> "value", value |-> v]

\* The JSON bodies a client may send to POST /tasks and PATCH /tasks/{id}:
\* titles of 0, 1, 200 and 201 characters, descriptions of 1, 4000 and 4001.
TitleFields ==
    {Absent(""), Value(""), Value("a"),
     Value(Repeat("t", TitleMaxLength)), Value(Repeat("t", TitleMaxLength + 1))}
DescriptionFields ==
    {Absent(""), Null(""), Value("d"),
     Value(Repeat("d", DescriptionMaxLength)),
     Value(Repeat("d", DescriptionMaxLength + 1))}
CompletedFields == {Absent(FALSE), Value(TRUE)}
RequestBodies ==
    [title : TitleFields, description : DescriptionFields, completed : CompletedFields]

\* RequestValidationError: the framework answers 422 and the handler is not called.
ValidationError == [status |-> 422, error |-> "ValidationError", body |-> None]

\* The same validation with a bug: the title's upper bound is not included.
TaskCreate_validate_excludes_max(body) ==
    IF \/ body.title.given # "value"
       \/ Len(body.title.value) < TitleMinLength
       \/ Len(body.title.value) >= TitleMaxLength
       \/ /\ body.description.given = "value"
          /\ Len(body.description.value) > DescriptionMaxLength
       \/ body.completed.given = "null"
    THEN ValidationError
    ELSE [status |-> 200, error |-> "none",
          body |-> [title |-> body.title.value,
                    description |-> IF body.description.given = "value"
                                    THEN {body.description.value} ELSE {},
                    completed |-> IF body.completed.given = "value"
                                  THEN body.completed.value ELSE FALSE]]

\* TaskCreate.model_validate(body): title is required and a str of 1..200
\* characters; description is an Optional[str] of at most 4000, default None;
\* completed is a bool, default False.
TaskCreate_validate(body) ==
    IF \/ body.title.given # "value"
       \/ Len(body.title.value) < TitleMinLength
       \/ Len(body.title.value) > TitleMaxLength
       \/ /\ body.description.given = "value"
          /\ Len(body.description.value) > DescriptionMaxLength
       \/ body.completed.given = "null"
    THEN ValidationError
    ELSE [status |-> 200, error |-> "none",
          body |-> [title |-> body.title.value,
                    description |-> IF body.description.given = "value"
                                    THEN {body.description.value} ELSE {},
                    completed |-> IF body.completed.given = "value"
                                  THEN body.completed.value ELSE FALSE]]

\* TaskUpdate.model_validate(body): every field is Optional with default None,
\* so a field left out and a field given as null both become None; the length
\* bounds apply to a str that is given.
TaskUpdate_validate(body) ==
    IF \/ /\ body.title.given = "value"
          /\ \/ Len(body.title.value) < TitleMinLength
             \/ Len(body.title.value) > TitleMaxLength
       \/ /\ body.description.given = "value"
          /\ Len(body.description.value) > DescriptionMaxLength
    THEN ValidationError
    ELSE [status |-> 200, error |-> "none",
          body |-> [title |-> IF body.title.given = "value"
                              THEN {body.title.value} ELSE {},
                    description |-> IF body.description.given = "value"
                                    THEN {body.description.value} ELSE {},
                    completed |-> IF body.completed.given = "value"
                                  THEN {body.completed.value} ELSE {}]]

VARIABLES
    env_uri,        \* the MONGODB_URI environment variable
    env_timeout,    \* the MONGODB_SERVER_SELECTION_TIMEOUT_MS environment variable
    reachable,      \* whether the MongoDB server answers commands right now
    phase,          \* "init" (constructed), "running" (startup done), "stopped";
                    \* "paired" in SpecPaired and "racing" in SpecRace, where the
                    \* stores are called directly
    mongo_manager,  \* MongoClientManager: [_client, _db]
    startup_ok,     \* init_mongo's local `ok`: the result of the startup ping
    mem,            \* InMemoryTasksStore._items: documents in dict insertion order
    col,            \* the MongoDB "tasks" collection: documents in insertion order
    indexes,        \* the indexes of the MongoDB "tasks" collection
    inflight,       \* per task id, the MongoTasksStore.update coroutines suspended
                    \* after update_one (task_id is the only local they still read)
    clock,          \* the wall clock read by _now_utc
    next_id,        \* how many uuid4 ids have been issued, plus one
    creates_left,   \* how many more tasks this run creates
    response,       \* the HTTP response sent by the step that led here
    paired,         \* SpecPaired: the two stores' results of the same call
    calls           \* SpecRace: the frame of each MongoTasksStore.update call
                    \* (where it stands, its arguments, its update_doc, its result)

\* response.op and response.status come before response: they tell apart two
\* responses whose bodies have different shapes.
vars == <<env_uri, env_timeout, reachable, phase, mongo_manager, startup_ok, mem, col,
          indexes, inflight, clock, next_id, creates_left, response.op,
          response.status, response, paired, calls>>

\* ------------------------------------------------------- pure helpers
Min(a, b) == IF a < b THEN a ELSE b

\* _now_utc(): the current reading of the wall clock.
_now_utc == clock

\* _serialize_task(doc)
_serialize_task(doc) ==
    [id |-> doc._id,
     title |-> doc.title,
     description |-> doc.description,
     completed |-> doc.completed,
     created_at |-> doc.created_at,
     updated_at |-> doc.updated_at]

SerializeAll(docs) == [i \in 1..Len(docs) |-> _serialize_task(docs[i])]

\* Index of the document with the given key, 0 when there is none.
IndexOf(docs, task_id) ==
    IF \E i \in 1..Len(docs) : docs[i]._id = task_id
    THEN CHOOSE i \in 1..Len(docs) : docs[i]._id = task_id
    ELSE 0

RemoveAt(docs, k) == SubSeq(docs, 1, k - 1) \o SubSeq(docs, k + 1, Len(docs))

\* Python's values[offset : offset + limit], also cursor.skip(offset).limit(limit).
Slice(values, offset, limit) ==
    SubSeq(values, offset + 1, Min(offset + limit, Len(values)))

\* One insertion of list.sort(key=created_at, reverse=True): x goes after every
\* element whose key is >= its own, so equal keys keep their original order.
InsertDesc(sorted, x) ==
    LET k == Cardinality({i \in 1..Len(sorted) : sorted[i].created_at >= x.created_at})
    IN  SubSeq(sorted, 1, k) \o <<x>> \o SubSeq(sorted, k + 1, Len(sorted))

\* values.sort(key=lambda x: x["created_at"], reverse=True): stable.
RECURSIVE SortDescStable(_)
SortDescStable(values) ==
    IF values = <<>> THEN <<>>
    ELSE InsertDesc(SortDescStable(SubSeq(values, 1, Len(values) - 1)),
                    values[Len(values)])

\* The same document with a bug: the key is a fixed string, not a fresh uuid.
NewDoc_fixed_id(task_id, payload, now) ==
    [_id |-> 1,
     title |-> payload.title,
     description |-> payload.description,
     completed |-> payload.completed,
     created_at |-> now,
     updated_at |-> now]

\* The document create builds (both stores build the same one).
NewDoc(task_id, payload, now) ==
    [_id |-> task_id,
     title |-> payload.title,
     description |-> payload.description,
     completed |-> payload.completed,
     created_at |-> now,
     updated_at |-> now]

\* What a store method gives its caller: a value, or a raised exception.
Ok(body) == [status |-> 200, error |-> "none", body |-> body]
\* HTTPException(status_code=404, detail="Task not found")
TaskNotFound == [status |-> 404, error |-> "NotFound", body |-> None]
\* An exception no handler catches: the framework answers 500.
Raised(error) == [status |-> 500, error |-> error, body |-> None]
\* A driver call against an unreachable server raises (server selection timeout).
DriverError == Raised("DriverError")

\* ------------------------------------------------- InMemoryTasksStore
\* Each method gives [items: the dict afterwards, result: what the caller gets].
InMemoryTasksStore_list(items, limit, offset) ==
    [items |-> items,
     result |-> Ok(SerializeAll(Slice(SortDescStable(items), offset, limit)))]

\* self._items[task_id] = doc: a new key goes last, an existing key keeps its place.
InMemoryTasksStore_create(items, task_id, payload, now) ==
    LET doc == NewDoc(task_id, payload, now)
        k == IndexOf(items, task_id)
    IN  [items |-> IF k = 0 THEN Append(items, doc) ELSE [items EXCEPT ![k] = doc],
         result |-> Ok(_serialize_task(doc))]

InMemoryTasksStore_get(items, task_id) ==
    [items |-> items,
     result |-> IF IndexOf(items, task_id) = 0 THEN TaskNotFound
                ELSE Ok(_serialize_task(items[IndexOf(items, task_id)]))]

\* The same update with a bug: the document is rebuilt from the payload, so a
\* field the payload leaves out loses the value an earlier update gave it.
InMemoryTasksStore_update_rebuilds(items, task_id, payload, now) ==
    LET k == IndexOf(items, task_id)
    IN  IF k = 0 THEN [items |-> items, result |-> TaskNotFound]
        ELSE LET doc == [items[k] EXCEPT
                            !.title = IF payload.title # None
                                      THEN TheValue(payload.title) ELSE "a",
                            !.completed = IF payload.completed # None
                                          THEN TheValue(payload.completed) ELSE FALSE,
                            !.updated_at = now]
             IN  [items |-> [items EXCEPT ![k] = doc],
                  result |-> Ok(_serialize_task(doc))]

\* The same update with a bug: description is assigned whatever the payload
\* holds, None included.
InMemoryTasksStore_update_assigns_description(items, task_id, payload, now) ==
    LET k == IndexOf(items, task_id)
    IN  IF k = 0 THEN [items |-> items, result |-> TaskNotFound]
        ELSE LET doc == [items[k] EXCEPT
                            !.title = IF payload.title # None
                                      THEN TheValue(payload.title) ELSE @,
                            !.description = payload.description,
                            !.completed = IF payload.completed # None
                                          THEN TheValue(payload.completed) ELSE @,
                            !.updated_at = now]
             IN  [items |-> [items EXCEPT ![k] = doc],
                  result |-> Ok(_serialize_task(doc))]

InMemoryTasksStore_update(items, task_id, payload, now) ==
    LET k == IndexOf(items, task_id)
    IN  IF k = 0 THEN [items |-> items, result |-> TaskNotFound]
        ELSE LET doc == items[k]
                 d1 == IF payload.title # None
                       THEN [doc EXCEPT !.title = TheValue(payload.title)] ELSE doc
                 d2 == IF payload.description # None
                       THEN [d1 EXCEPT !.description = payload.description] ELSE d1
                 d3 == IF payload.completed # None
                       THEN [d2 EXCEPT !.completed = TheValue(payload.completed)]
                       ELSE d2
                 d4 == [d3 EXCEPT !.updated_at = now]
             IN  [items |-> [items EXCEPT ![k] = d4],
                  result |-> Ok(_serialize_task(d4))]

\* The same delete with a bug: the task is reported deleted and kept.
InMemoryTasksStore_delete_keeps(items, task_id) ==
    LET k == IndexOf(items, task_id)
    IN  IF k = 0 THEN [items |-> items, result |-> TaskNotFound]
        ELSE [items |-> items, result |-> Ok(None)]

InMemoryTasksStore_delete(items, task_id) ==
    LET k == IndexOf(items, task_id)
    IN  IF k = 0 THEN [items |-> items, result |-> TaskNotFound]
        ELSE [items |-> RemoveAt(items, k), result |-> Ok(None)]

\* ---------------------------------------------------- MongoTasksStore
\* The methods below are what a reachable server does; against an unreachable
\* one every driver call raises (see DriverError in the handlers).

\* The orders find({}).sort("created_at", -1) may return: every arrangement of
\* the collection with created_at non-increasing. The sort names no second key,
\* so documents with equal created_at come in any order.
MongoSortOrders(docs) ==
    LET n == Len(docs)
        perms == {p \in [1..n -> 1..n] : \A i, j \in 1..n : i # j => p[i] # p[j]}
        sorted == {p \in perms : \A i, j \in 1..n :
                      i < j => docs[p[i]].created_at >= docs[p[j]].created_at}
    IN  {[i \in 1..n |-> docs[p[i]]] : p \in sorted}

\* Which create_index call of ensure_indexes the server refuses, if any (say,
\* for want of the privilege), while it answers queries.
IndexFailures == {"none", "created_at", "updated_at"}

\* The same method with a bug: the exception of a failed create_index leaves it.
MongoTasksStore_ensure_indexes_raises(idx, up, refused) ==
    [indexes |-> IF ~up \/ refused = "created_at" THEN idx
                 ELSE IF refused = "updated_at" THEN idx \cup {"created_at"}
                 ELSE idx \cup {"created_at", "updated_at"},
     result |-> IF ~up THEN DriverError
                ELSE IF refused # "none" THEN Raised("OperationFailure")
                ELSE Ok(None)]

\* ensure_indexes: create_index("created_at"), then create_index("updated_at").
\* The first call that raises ends the try block; the exception is swallowed.
\* Creating an index that exists changes nothing.
MongoTasksStore_ensure_indexes(idx, up, refused) ==
    [indexes |-> IF ~up \/ refused = "created_at" THEN idx
                 ELSE IF refused = "updated_at" THEN idx \cup {"created_at"}
                 ELSE idx \cup {"created_at", "updated_at"},
     result |-> Ok(None)]

\* A datetime as BSON keeps it: whole milliseconds, the rest dropped.
BsonDate(t) == t - (t % TicksPerMs)

\* A document as the collection keeps it.
BsonDoc(doc) == [doc EXCEPT !.created_at = BsonDate(@), !.updated_at = BsonDate(@)]

\* The results list may give (one per order the server may sort in).
MongoTasksStore_list(docs, limit, offset) ==
    {[items |-> docs, result |-> Ok(SerializeAll(Slice(order, offset, limit)))] :
        order \in MongoSortOrders(docs)}

\* insert_one(doc), then the local doc serialized: the response carries the
\* datetimes as _now_utc gave them, the collection what BSON keeps of them.
MongoTasksStore_create(docs, task_id, payload, now) ==
    LET doc == NewDoc(task_id, payload, now)
    IN  [items |-> Append(docs, BsonDoc(doc)), result |-> Ok(_serialize_task(doc))]

\* find_one({"_id": task_id}); `not doc` holds for None only.
MongoTasksStore_get(docs, task_id) ==
    [items |-> docs,
     result |-> IF IndexOf(docs, task_id) = 0 THEN TaskNotFound
                ELSE Ok(_serialize_task(docs[IndexOf(docs, task_id)]))]

\* The $set document update builds.
MongoUpdateDoc(payload, now) ==
    [updated_at |-> Some(now),
     title |-> payload.title,
     description |-> payload.description,
     completed |-> payload.completed]

\* {"$set": update_doc} applied to one document.
ApplySet(doc, update_doc) ==
    [doc EXCEPT
        !.updated_at = BsonDate(TheValue(update_doc.updated_at)),
        !.title = IF update_doc.title # None THEN TheValue(update_doc.title) ELSE @,
        !.description = IF update_doc.description # None
                        THEN update_doc.description ELSE @,
        !.completed = IF update_doc.completed # None
                      THEN TheValue(update_doc.completed) ELSE @]

\* First half of update, up to the matched_count test: the collection afterwards
\* and whether the write matched.
MongoTasksStore_update_one(docs, task_id, payload, now) ==
    LET k == IndexOf(docs, task_id)
    IN  IF k = 0 THEN [items |-> docs, matched |-> FALSE]
        ELSE [items |-> [docs EXCEPT ![k] = ApplySet(docs[k],
                                                     MongoUpdateDoc(payload, now))],
              matched |-> TRUE]

\* Second half of update: find_one, then _serialize_task(doc), which raises
\* TypeError when doc is None.
MongoTasksStore_update_reread(docs, task_id) ==
    IF IndexOf(docs, task_id) = 0 THEN Raised("TypeError")
    ELSE Ok(_serialize_task(docs[IndexOf(docs, task_id)]))

\* update with nothing running between its two awaits.
MongoTasksStore_update(docs, task_id, payload, now) ==
    LET w == MongoTasksStore_update_one(docs, task_id, payload, now)
    IN  [items |-> w.items,
         result |-> IF w.matched THEN MongoTasksStore_update_reread(w.items, task_id)
                    ELSE TaskNotFound]

MongoTasksStore_delete(docs, task_id) ==
    LET k == IndexOf(docs, task_id)
    IN  IF k = 0 THEN [items |-> docs, result |-> TaskNotFound]
        ELSE [items |-> RemoveAt(docs, k), result |-> Ok(None)]

\* ------------------------------------------------ MongoClientManager
Max(a, b) == IF a > b THEN a ELSE b

\* str.strip() of the blanks int() ignores.
RECURSIVE strip(_)
strip(text) ==
    IF Len(text) > 0 /\ SubSeq(text, 1, 1) = " "
    THEN strip(SubSeq(text, 2, Len(text)))
    ELSE IF Len(text) > 0 /\ SubSeq(text, Len(text), Len(text)) = " "
         THEN strip(SubSeq(text, 1, Len(text) - 1))
         ELSE text

DecimalDigits == <<"0", "1", "2", "3", "4", "5", "6", "7", "8", "9">>
IsDigit(ch) == \E d \in 1..10 : DecimalDigits[d] = ch
DigitValue(ch) == (CHOOSE d \in 1..10 : DecimalDigits[d] = ch) - 1

RECURSIVE DigitsValue(_, _)
DigitsValue(text, acc) ==
    IF Len(text) = 0 THEN acc
    ELSE DigitsValue(SubSeq(text, 2, Len(text)),
                     10 * acc + DigitValue(SubSeq(text, 1, 1)))

\* int(text): blanks around, an optional sign, then one or more decimal digits;
\* anything else raises ValueError.
int(text) ==
    LET t == strip(text)
        signed == Len(t) > 0 /\ SubSeq(t, 1, 1) \in {"+", "-"}
        digits == IF signed THEN SubSeq(t, 2, Len(t)) ELSE t
    IN  IF Len(digits) = 0
           \/ \E i \in 1..Len(digits) : ~IsDigit(SubSeq(digits, i, i))
        THEN Raised("ValueError")
        ELSE IF signed /\ SubSeq(t, 1, 1) = "-"
             THEN Ok(0 - DigitsValue(digits, 0))
             ELSE Ok(DigitsValue(digits, 0))

\* The same computation with a bug: the parsed value is used as it is.
timeout_ms_unfloored(raw) ==
    LET parsed == int(IF raw = None THEN "500" ELSE TheValue(raw))
    IN  IF parsed.status = 200 THEN parsed.body ELSE TimeoutDefaultMs

\* configure_from_env: the serverSelectionTimeoutMS given to the client.
timeout_ms(raw) ==
    LET timeout_ms_raw == IF raw = None THEN "500" ELSE TheValue(raw)
        parsed == int(timeout_ms_raw)
    IN  IF parsed.status = 200 THEN Max(TimeoutFloorMs, parsed.body)
        ELSE TimeoutDefaultMs

\* configure_from_env: `not mongodb_uri` holds for an unset and for an empty URI.
configure_from_env(uri, raw) ==
    IF uri = None \/ uri = Some("")
    THEN [_client |-> None, _db |-> None]
    ELSE [_client |-> Some([serverSelectionTimeoutMS |-> timeout_ms(raw)]),
          _db |-> Some("db")]

\* await self._db.command("ping"): the server's answer, or a raised driver error.
db_command_ping(up) == IF up THEN Ok([ok |-> 1]) ELSE DriverError

\* The same ping with a bug: the handle is tested by truthiness, which a
\* Database object answers by raising NotImplementedError.
ping_by_truthiness(mgr, up) ==
    IF mgr._db = None THEN Ok(FALSE) ELSE Raised("NotImplementedError")

\* ping: what the coroutine gives its caller. The handle is compared with None;
\* whatever the command raises is caught and becomes False.
ping(mgr, up) ==
    IF mgr._db = None THEN Ok(FALSE)
    ELSE IF db_command_ping(up).status = 200 THEN Ok(TRUE) ELSE Ok(FALSE)

\* close (and disable, which only calls close).
close(mgr) == [_client |-> None, _db |-> None]
disable(mgr) == close(mgr)

get_mongo_db == mongo_manager._db

\* Which store get_tasks_store(db) hands out.
get_tasks_store(db) == IF db = None THEN "memory" ELSE "mongo"

\* ------------------------------------------------------------ responses
Resp(op, backend, r) ==
    [op |-> op, backend |-> backend, status |-> r.status, error |-> r.error,
     body |-> r.body]

NoResult == [status |-> 0, error |-> "none", body |-> None]
NoResponse == Resp("none", "none", NoResult)
NoInflight == [id \in TaskIds |-> 0]
InflightCount == LET RECURSIVE Sum(_)
                     Sum(n) == IF n = 0 THEN 0 ELSE inflight[n] + Sum(n - 1)
                 IN  Sum(MaxStoreTasks)

\* The frame of a MongoTasksStore.update call: pc is "idle" before the call,
\* "find_one" while it is suspended between update_one and find_one, and
\* "returned" once it has returned or raised.
CallIds == 1..MaxCalls
IdleFrame ==
    [pc |-> "idle", task_id |-> 0,
     payload |-> [title |-> None, description |-> None, completed |-> None],
     update_doc |-> [updated_at |-> None, title |-> None, description |-> None,
                     completed |-> None],
     result |-> NoResult]
NoCalls == [c \in CallIds |-> IdleFrame]

InitCommon ==
    /\ mongo_manager = [_client |-> None, _db |-> None]
    /\ startup_ok = FALSE
    /\ mem = <<>>
    /\ col = <<>>
    /\ indexes = {}
    /\ inflight = NoInflight
    /\ clock = 0
    /\ next_id = 1
    /\ response = NoResponse
    /\ paired = <<NoResult, NoResult>>
    /\ calls = NoCalls

Init ==
    /\ env_uri \in EnvUris
    /\ env_timeout = None
    /\ reachable \in BOOLEAN
    /\ creates_left = MaxTasks
    /\ phase = "init"
    /\ InitCommon

\* ------------------------------------------------------------- startup
\* The same startup with a bug: the handle is kept when the ping fails.
init_mongo_keeps_handle ==
    /\ phase = "init"
    /\ startup_ok' = ping(configure_from_env(env_uri, env_timeout), reachable).body
    /\ mongo_manager' = configure_from_env(env_uri, env_timeout)
    /\ phase' = "running"
    /\ UNCHANGED <<env_uri, env_timeout, reachable, mem, col, indexes, inflight, clock, next_id,
                   creates_left, response, paired, calls>>

\* init_mongo, run by the startup event before any request is served. An
\* exception out of ping would leave the startup event, and the server would
\* not start.
init_mongo ==
    /\ phase = "init"
    /\ LET configured == configure_from_env(env_uri, env_timeout)
           r == ping(configured, reachable)
       IN  IF r.status # 200
           THEN /\ startup_ok' = FALSE
                /\ mongo_manager' = configured
                /\ phase' = "stopped"
           ELSE /\ startup_ok' = r.body
                /\ mongo_manager' = IF r.body THEN configured ELSE disable(configured)
                /\ phase' = "running"
    /\ UNCHANGED <<env_uri, env_timeout, reachable, mem, col, indexes, inflight, clock, next_id,
                   creates_left, response, paired, calls>>

\* close_mongo, run by the shutdown event.
close_mongo ==
    /\ phase = "running"
    /\ mongo_manager' = close(mongo_manager)
    /\ phase' = "stopped"
    /\ response' = NoResponse
    /\ UNCHANGED <<env_uri, env_timeout, reachable, startup_ok, mem, col, indexes, inflight,
                   clock, next_id, creates_left, paired, calls>>

\* ------------------------------------------------------------- handlers
\* The health report health_v1 builds.
HealthOut(configured, ok) ==
    [status |-> "ok", mongodb_configured |-> configured, mongodb_ok |-> ok]

\* The same handler with a bug: a failed probe disables the manager.
health_v1_disables ==
    /\ phase = "running"
    /\ LET configured == get_mongo_db # None
           ok == IF configured THEN ping(mongo_manager, reachable).body ELSE FALSE
       IN  /\ response' = Resp("health", "none", Ok(HealthOut(configured, ok)))
           /\ mongo_manager' = IF ok THEN mongo_manager ELSE disable(mongo_manager)
    /\ UNCHANGED <<env_uri, env_timeout, reachable, phase, startup_ok, mem, col, indexes,
                   inflight, clock, next_id, creates_left, paired, calls>>

\* The same handler with a bug: a probe that fails fails the request.
health_v1_fails_when_down ==
    /\ phase = "running"
    /\ LET configured == get_mongo_db # None
           r == ping(mongo_manager, reachable)
       IN  response' = IF configured /\ ~(r.status = 200 /\ r.body)
                       THEN Resp("health", "none", DriverError)
                       ELSE Resp("health", "none", Ok(HealthOut(configured, configured)))
    /\ UNCHANGED <<env_uri, env_timeout, reachable, phase, mongo_manager, startup_ok,
                   mem, col, indexes, inflight, clock, next_id, creates_left, paired, calls>>

\* GET /api/v1/health. The probe is made only with a handle; an exception out
\* of it is caught and counts as a failed probe.
health_v1 ==
    /\ phase = "running"
    /\ LET db == get_mongo_db
           configured == db # None
           r == ping(mongo_manager, reachable)
           ok == IF configured
                 THEN (IF r.status = 200 THEN r.body ELSE FALSE)
                 ELSE FALSE
       IN  response' = Resp("health", "none", Ok(HealthOut(configured, ok)))
    /\ UNCHANGED <<env_uri, env_timeout, reachable, phase, mongo_manager, startup_ok, mem, col,
                   indexes, inflight, clock, next_id, creates_left, paired, calls>>

\* GET /api/v1/tasks. On the Mongo store ensure_indexes runs first and swallows
\* its errors; the find that follows is not guarded.
list_tasks(limit, offset) ==
    /\ phase = "running"
    /\ IF get_tasks_store(get_mongo_db) = "memory"
       THEN /\ response' = Resp("list", "memory",
                                InMemoryTasksStore_list(mem, limit, offset).result)
            /\ UNCHANGED indexes
       ELSE \E refused \in IndexFailures :
              LET e == MongoTasksStore_ensure_indexes(indexes, reachable, refused)
              IN  /\ indexes' = e.indexes
                  /\ IF e.result.status # 200
                     THEN response' = Resp("list", "mongo", e.result)
                     ELSE IF reachable
                          THEN \E r \in MongoTasksStore_list(col, limit, offset) :
                                  response' = Resp("list", "mongo", r.result)
                          ELSE response' = Resp("list", "mongo", DriverError)
    /\ UNCHANGED <<env_uri, env_timeout, reachable, phase, mongo_manager, startup_ok, mem, col,
                   inflight, clock, next_id, creates_left, paired, calls>>

\* The same handler with a bug: a failed insert is retried on the in-memory store.
create_task_falls_back(payload) ==
    /\ phase = "running"
    /\ creates_left > 0
    /\ IF get_tasks_store(get_mongo_db) = "mongo" /\ reachable
       THEN LET r == MongoTasksStore_create(col, next_id, payload, _now_utc)
            IN  /\ col' = r.items
                /\ response' = Resp("create", "mongo", r.result)
                /\ UNCHANGED mem
       ELSE LET r == InMemoryTasksStore_create(mem, next_id, payload, _now_utc)
            IN  /\ mem' = r.items
                /\ response' = Resp("create", "memory", r.result)
                /\ UNCHANGED col
    /\ next_id' = next_id + 1
    /\ creates_left' = creates_left - 1
    /\ UNCHANGED <<env_uri, env_timeout, reachable, phase, mongo_manager, startup_ok, indexes,
                   inflight, clock, paired, calls>>

\* POST /api/v1/tasks. uuid4 gives an id never issued before.
create_task(payload) ==
    /\ phase = "running"
    /\ creates_left > 0
    /\ IF get_tasks_store(get_mongo_db) = "memory"
       THEN LET r == InMemoryTasksStore_create(mem, next_id, payload, _now_utc)
            IN  /\ mem' = r.items
                /\ response' = Resp("create", "memory", r.result)
                /\ UNCHANGED col
       ELSE IF reachable
            THEN LET r == MongoTasksStore_create(col, next_id, payload, _now_utc)
                 IN  /\ col' = r.items
                     /\ response' = Resp("create", "mongo", r.result)
                     /\ UNCHANGED mem
            ELSE /\ response' = Resp("create", "mongo", DriverError)
                 /\ UNCHANGED <<mem, col>>
    /\ next_id' = next_id + 1
    /\ creates_left' = creates_left - 1
    /\ UNCHANGED <<env_uri, env_timeout, reachable, phase, mongo_manager, startup_ok, indexes,
                   inflight, clock, paired, calls>>

\* GET /api/v1/tasks/{task_id}
get_task(task_id) ==
    /\ phase = "running"
    /\ response' =
          IF get_tasks_store(get_mongo_db) = "memory"
          THEN Resp("get", "memory", InMemoryTasksStore_get(mem, task_id).result)
          ELSE IF reachable
               THEN Resp("get", "mongo", MongoTasksStore_get(col, task_id).result)
               ELSE Resp("get", "mongo", DriverError)
    /\ UNCHANGED <<env_uri, env_timeout, reachable, phase, mongo_manager, startup_ok, mem, col,
                   indexes, inflight, clock, next_id, creates_left, paired, calls>>

\* PATCH /api/v1/tasks/{task_id}. The in-memory update has no await and runs to
\* its end in one step. The Mongo update suspends at update_one and again at
\* find_one: this step ends when update_one has answered, and a matched write
\* leaves the coroutine suspended before find_one.
update_task(task_id, payload) ==
    /\ phase = "running"
    /\ IF get_tasks_store(get_mongo_db) = "memory"
       THEN LET r == InMemoryTasksStore_update(mem, task_id, payload, _now_utc)
            IN  /\ mem' = r.items
                /\ response' = Resp("update", "memory", r.result)
                /\ UNCHANGED <<col, inflight>>
       ELSE /\ InflightCount < MaxInflight
            /\ UNCHANGED mem
            /\ IF ~reachable
               THEN /\ response' = Resp("update", "mongo", DriverError)
                    /\ UNCHANGED <<col, inflight>>
               ELSE LET w == MongoTasksStore_update_one(col, task_id, payload, _now_utc)
                    IN  IF w.matched
                        THEN /\ col' = w.items
                             /\ inflight' = [inflight EXCEPT ![task_id] = @ + 1]
                             /\ response' = NoResponse
                        ELSE /\ response' = Resp("update", "mongo", TaskNotFound)
                             /\ UNCHANGED <<col, inflight>>
    /\ UNCHANGED <<env_uri, env_timeout, reachable, phase, mongo_manager, startup_ok, indexes,
                   clock, next_id, creates_left, paired, calls>>

\* The rest of MongoTasksStore.update for a coroutine suspended on task_id.
update_task_resume(task_id) ==
    /\ phase = "running"
    /\ inflight[task_id] > 0
    /\ inflight' = [inflight EXCEPT ![task_id] = @ - 1]
    /\ response' = IF reachable
                   THEN Resp("update", "mongo",
                             MongoTasksStore_update_reread(col, task_id))
                   ELSE Resp("update", "mongo", DriverError)
    /\ UNCHANGED <<env_uri, env_timeout, reachable, phase, mongo_manager, startup_ok, mem, col,
                   indexes, clock, next_id, creates_left, paired, calls>>

\* The body delete_task returns after store.delete.
Deleted(r, task_id) ==
    IF r.status = 200 THEN Ok([deleted |-> TRUE, id |-> task_id]) ELSE r

\* DELETE /api/v1/tasks/{task_id}
delete_task(task_id) ==
    /\ phase = "running"
    /\ IF get_tasks_store(get_mongo_db) = "memory"
       THEN LET r == InMemoryTasksStore_delete(mem, task_id)
            IN  /\ mem' = r.items
                /\ response' = Resp("delete", "memory", Deleted(r.result, task_id))
                /\ UNCHANGED col
       ELSE IF reachable
            THEN LET r == MongoTasksStore_delete(col, task_id)
                 IN  /\ col' = r.items
                     /\ response' = Resp("delete", "mongo", Deleted(r.result, task_id))
                     /\ UNCHANGED mem
            ELSE /\ response' = Resp("delete", "mongo", DriverError)
                 /\ UNCHANGED <<mem, col>>
    /\ UNCHANGED <<env_uri, env_timeout, reachable, phase, mongo_manager, startup_ok, indexes,
                   inflight, clock, next_id, creates_left, paired, calls>>

\* A request whose body fails validation: 422, and no handler runs.
Rejected(op) ==
    /\ phase = "running"
    /\ response' = Resp(op, "none", ValidationError)
    /\ UNCHANGED <<env_uri, env_timeout, reachable, phase, mongo_manager, startup_ok,
                   mem, col, indexes, inflight, clock, next_id, creates_left, paired, calls>>

\* POST /api/v1/tasks with a JSON body: the framework validates the body
\* against TaskCreate, then calls create_task with the model.
post_tasks(body) ==
    LET v == TaskCreate_validate(body)
    IN  IF v.status # 200 THEN Rejected("create") ELSE create_task(v.body)

\* PATCH /api/v1/tasks/{task_id} with a JSON body: validated against TaskUpdate
\* before update_task is called.
patch_task(task_id, body) ==
    LET v == TaskUpdate_validate(body)
    IN  IF v.status # 200 THEN Rejected("update") ELSE update_task(task_id, v.body)

\* ---------------------------------------------------------- environment
\* The wall clock advances between two readings, or does not.
Tick ==
    /\ phase \in {"running", "paired", "racing"}
    /\ clock < MaxClock
    /\ clock' = clock + 1
    /\ response' = NoResponse
    /\ UNCHANGED <<env_uri, env_timeout, reachable, phase, mongo_manager, startup_ok, mem, col,
                   indexes, inflight, next_id, creates_left, paired, calls>>

\* The MongoDB server becomes unreachable, or reachable again.
ServerFlips ==
    /\ phase = "running"
    /\ reachable' = ~reachable
    /\ response' = NoResponse
    /\ UNCHANGED <<env_uri, env_timeout, phase, mongo_manager, startup_ok, mem, col, indexes,
                   inflight, clock, next_id, creates_left, paired, calls>>

Next ==
    \/ init_mongo
    \/ health_v1
    \/ \E limit \in Limits, offset \in Offsets : list_tasks(limit, offset)
    \/ \E payload \in TaskCreate : create_task(payload)
    \/ \E task_id \in TaskIds : get_task(task_id)
    \/ \E task_id \in TaskIds, payload \in TaskUpdate : update_task(task_id, payload)
    \/ \E task_id \in TaskIds : update_task_resume(task_id)
    \/ \E task_id \in TaskIds : delete_task(task_id)
    \/ close_mongo
    \/ Tick
    \/ ServerFlips

\* The whole program, from construction, in every environment.
Spec == Init /\ [][Next]_vars

\* The program started with a URI and a reachable server: the durable store is
\* committed.
InitDurable ==
    /\ env_uri = Some("mongodb://db")
    /\ env_timeout = None
    /\ reachable = TRUE
    /\ creates_left = MaxStoreTasks
    /\ phase = "init"
    /\ InitCommon

SpecDurable == InitDurable /\ [][Next]_vars

\* The program started without MONGODB_URI: the in-memory store is committed,
\* no Mongo update is ever suspended, and update_task_resume never applies.
InitFallback ==
    /\ env_uri = None
    /\ env_timeout = None
    /\ reachable \in BOOLEAN
    /\ creates_left = MaxStoreTasks
    /\ phase = "init"
    /\ InitCommon

NextFallback ==
    \/ init_mongo
    \/ health_v1
    \/ \E limit \in Limits, offset \in Offsets : list_tasks(limit, offset)
    \/ \E payload \in TaskCreate : create_task(payload)
    \/ \E task_id \in TaskIds : get_task(task_id)
    \/ \E task_id \in TaskIds, payload \in TaskUpdate : update_task(task_id, payload)
    \/ \E task_id \in TaskIds : delete_task(task_id)
    \/ close_mongo
    \/ Tick
    \/ ServerFlips

SpecFallback == InitFallback /\ [][NextFallback]_vars

\* The program as its clients see it: requests carry JSON bodies. The server is
\* reachable throughout; MONGODB_URI is set or not.
InitWire ==
    /\ env_uri \in {None, Some("mongodb://db")}
    /\ env_timeout = None
    /\ reachable = TRUE
    /\ creates_left = MaxStoreTasks
    /\ phase = "init"
    /\ InitCommon

NextWire ==
    \/ init_mongo
    \/ \E body \in RequestBodies : post_tasks(body)
    \/ \E task_id \in TaskIds, body \in RequestBodies : patch_task(task_id, body)
    \/ \E task_id \in TaskIds : update_task_resume(task_id)
    \/ \E task_id \in TaskIds : get_task(task_id)
    \/ \E task_id \in TaskIds : delete_task(task_id)
    \/ Tick

SpecWire == InitWire /\ [][NextWire]_vars

\* Startup, health and shutdown in every environment, the timeout variable
\* included; no task is created.
InitConfig ==
    /\ env_uri \in EnvUris
    /\ env_timeout \in EnvTimeouts
    /\ reachable \in BOOLEAN
    /\ creates_left = 0
    /\ phase = "init"
    /\ InitCommon

NextConfig ==
    \/ init_mongo
    \/ health_v1
    \/ ServerFlips
    \/ close_mongo

SpecConfig == InitConfig /\ [][NextConfig]_vars

\* ------------------------------------------------ the two stores, paired
\* The same calls, with the same ids and the same clock readings, made on an
\* InMemoryTasksStore and on a MongoTasksStore over a reachable server, one
\* call at a time.
InitPaired ==
    /\ env_uri = None
    /\ env_timeout = None
    /\ reachable = TRUE
    /\ creates_left = MaxStoreTasks
    /\ phase = "paired"
    /\ InitCommon

PairedFrame == UNCHANGED <<env_uri, env_timeout, reachable, phase, mongo_manager, startup_ok,
                           indexes, inflight, clock, response, calls>>

PairCreate(payload) ==
    /\ phase = "paired"
    /\ creates_left > 0
    /\ LET m == InMemoryTasksStore_create(mem, next_id, payload, _now_utc)
           d == MongoTasksStore_create(col, next_id, payload, _now_utc)
       IN  /\ mem' = m.items
           /\ col' = d.items
           /\ paired' = <<m.result, d.result>>
    /\ next_id' = next_id + 1
    /\ creates_left' = creates_left - 1
    /\ PairedFrame

PairGet(task_id) ==
    /\ phase = "paired"
    /\ paired' = <<InMemoryTasksStore_get(mem, task_id).result,
                   MongoTasksStore_get(col, task_id).result>>
    /\ UNCHANGED <<mem, col, next_id, creates_left>>
    /\ PairedFrame

PairUpdate(task_id, payload) ==
    /\ phase = "paired"
    /\ LET m == InMemoryTasksStore_update(mem, task_id, payload, _now_utc)
           d == MongoTasksStore_update(col, task_id, payload, _now_utc)
       IN  /\ mem' = m.items
           /\ col' = d.items
           /\ paired' = <<m.result, d.result>>
    /\ UNCHANGED <<next_id, creates_left>>
    /\ PairedFrame

PairDelete(task_id) ==
    /\ phase = "paired"
    /\ LET m == InMemoryTasksStore_delete(mem, task_id)
           d == MongoTasksStore_delete(col, task_id)
       IN  /\ mem' = m.items
           /\ col' = d.items
           /\ paired' = <<m.result, d.result>>
    /\ UNCHANGED <<next_id, creates_left>>
    /\ PairedFrame

PairList(limit, offset) ==
    /\ phase = "paired"
    /\ \E d \in MongoTasksStore_list(col, limit, offset) :
          paired' = <<InMemoryTasksStore_list(mem, limit, offset).result, d.result>>
    /\ UNCHANGED <<mem, col, next_id, creates_left>>
    /\ PairedFrame

NextPaired ==
    \/ \E payload \in TaskCreate : PairCreate(payload)
    \/ \E task_id \in TaskIds : PairGet(task_id)
    \/ \E task_id \in TaskIds, payload \in TaskUpdate : PairUpdate(task_id, payload)
    \/ \E task_id \in TaskIds : PairDelete(task_id)
    \/ \E limit \in Limits, offset \in Offsets : PairList(limit, offset)
    \/ Tick

SpecPaired == InitPaired /\ [][NextPaired]_vars

\* ------------------------------------- concurrent MongoTasksStore.update
\* MongoTasksStore.update called concurrently on one store over a reachable
\* server: a call suspends at each await, and other calls run meanwhile.
InitRace ==
    /\ env_uri = None
    /\ env_timeout = None
    /\ reachable = TRUE
    /\ creates_left = MaxTasks
    /\ phase = "racing"
    /\ InitCommon

RaceFrame == UNCHANGED <<env_uri, env_timeout, reachable, phase, mongo_manager, startup_ok,
                         mem, indexes, inflight, response, paired>>

\* The updates the concurrent callers make: they differ in the title they give.
RaceUpdates == TaskUpdate \cup [title : {Some("c")}, description : {None},
                                completed : {None}]

MongoTasksStore_create_call(payload) ==
    /\ phase = "racing"
    /\ creates_left > 0
    /\ col' = MongoTasksStore_create(col, next_id, payload, _now_utc).items
    /\ next_id' = next_id + 1
    /\ creates_left' = creates_left - 1
    /\ UNCHANGED <<clock, calls>>
    /\ RaceFrame

\* update up to its second await: update_doc is built from the payload and the
\* clock, update_one runs, and the call returns NotFound or goes on to find_one.
MongoTasksStore_update_call(c, task_id, payload) ==
    /\ phase = "racing"
    /\ calls[c].pc = "idle"
    /\ LET w == MongoTasksStore_update_one(col, task_id, payload, _now_utc)
       IN  /\ col' = w.items
           /\ calls' = [calls EXCEPT ![c] =
                           [pc |-> IF w.matched THEN "find_one" ELSE "returned",
                            task_id |-> task_id,
                            payload |-> payload,
                            update_doc |-> MongoUpdateDoc(payload, _now_utc),
                            result |-> IF w.matched THEN NoResult ELSE TaskNotFound]]
    /\ UNCHANGED <<clock, next_id, creates_left>>
    /\ RaceFrame

\* update from its second await: find_one, then return _serialize_task(doc).
MongoTasksStore_update_return(c) ==
    /\ phase = "racing"
    /\ calls[c].pc = "find_one"
    /\ calls' = [calls EXCEPT ![c] =
                    [@ EXCEPT !.pc = "returned",
                              !.result = MongoTasksStore_update_reread(
                                             col, calls[c].task_id)]]
    /\ UNCHANGED <<col, clock, next_id, creates_left>>
    /\ RaceFrame

NextRace ==
    \/ \E payload \in TaskCreate : MongoTasksStore_create_call(payload)
    \/ \E c \in CallIds, task_id \in TaskIds, payload \in RaceUpdates :
          MongoTasksStore_update_call(c, task_id, payload)
    \/ \E c \in CallIds : MongoTasksStore_update_return(c)
    \/ Tick

SpecRace == InitRace /\ [][NextRace]_vars

\* ---------------------------------------------------------------- claims
CrudOps == {"list", "create", "get", "update", "delete"}
UriConfigured == env_uri # None /\ env_uri # Some("")
Positions(seq) == 1..Len(seq)

\* C1: once init_mongo has completed, get_mongo_db() gives a handle exactly
\* when MONGODB_URI was set and the startup ping succeeded; without a handle
\* every CRUD request is answered by the in-memory store and none fails with
\* a server error.
C1_HandleIffStartupPingOk ==
    phase = "running" =>
        /\ (get_mongo_db # None) <=> (env_uri # None /\ startup_ok)
        /\ (get_mongo_db = None /\ response.op \in CrudOps) =>
              (response.backend = "memory" /\ response.status \in {200, 404})

\* C1 case: the URI is set, the startup ping failed, and a create was served
\* from the in-memory store.
C1_Witness ==
    /\ phase = "running"
    /\ UriConfigured
    /\ ~startup_ok
    /\ get_mongo_db = None
    /\ response.op = "create"
    /\ response.backend = "memory"
    /\ response.status = 200

\* C2: while the process runs, no step (health probe, CRUD request, clock or
\* server change) alters the manager's client/db handle, and every CRUD
\* response comes from the store the handle commits to.
C2_BackendCommitted ==
    [][(phase = "running" /\ phase' = "running") =>
          /\ mongo_manager' = mongo_manager
          /\ response'.op \in CrudOps =>
                response'.backend = get_tasks_store(get_mongo_db)]_vars

\* C2 case: the durable store is committed and a health probe has just failed.
C2_Witness ==
    /\ phase = "running"
    /\ get_mongo_db # None
    /\ response.op = "health"
    /\ response.body.mongodb_ok = FALSE

\* C3: with MONGODB_URI configured and the server unreachable at startup, a
\* health response after startup says mongodb_configured = true and
\* mongodb_ok = false.
C3_HealthAfterFailedStartup ==
    (phase = "running" /\ UriConfigured /\ ~startup_ok /\ response.op = "health") =>
        (response.body.mongodb_configured = TRUE /\ response.body.mongodb_ok = FALSE)

\* C4: the reachable flag of the health report is a fresh probe, independent
\* of the committed backend: when the URI is configured, the startup ping
\* failed and the server is reachable at the time of a health request, the
\* response says mongodb_ok = true. (No step between the handler and the
\* state holding its response changes `reachable`.)
C4_HealthSeesRecovery ==
    (phase = "running" /\ UriConfigured /\ ~startup_ok /\ response.op = "health"
        /\ reachable) =>
        response.body.mongodb_ok = TRUE

\* C5: the same calls made on both stores give the same result: the same
\* status and the same Task, list of Tasks or error.
C5_StoresAgree ==
    /\ paired[1].status = paired[2].status
    /\ paired[1].error = paired[2].error
    /\ paired[1].body = paired[2].body

\* C6: with the durable store committed at startup, a CRUD request made while
\* the server is unreachable ends in a server error raised by the driver: it
\* is answered by the Mongo store, the in-memory store stays untouched and the
\* handle stays in place.
C6_StorageErrorPropagates ==
    (phase = "running" /\ startup_ok /\ ~reachable /\ response.op \in CrudOps) =>
        /\ response.status = 500
        /\ response.error = "DriverError"
        /\ response.backend = "mongo"
        /\ mem = <<>>
        /\ get_mongo_db # None

\* C6 case: the durable store was committed and a create has just failed.
C6_Witness ==
    /\ phase = "running"
    /\ startup_ok
    /\ ~reachable
    /\ response.op = "create"
    /\ response.status = 500
    /\ response.backend = "mongo"

\* C7: a Mongo update whose driver calls all succeed ends in NotFound or in a
\* returned Task.
C7_UpdateNotFoundOrTask ==
    (response.op = "update" /\ response.backend = "mongo"
        /\ response.error # "DriverError") =>
        response.status \in {200, 404}

\* A Task as a response shows it, complete.
IsTaskOf(body, items) == \E k \in Positions(items) : body = _serialize_task(items[k])

\* C8: on the in-memory store every request acts on the current collection in
\* one step. No lost update: an update leaves each field it supplies at the
\* supplied value, each field it does not supply at the value the task had
\* just before, and every other task as it was. No torn read: the Tasks a
\* response shows are tasks of the collection, whole.
C8_FallbackAtomic ==
    /\ [](response.backend = "memory" /\ response.status = 200 =>
            /\ response.op \in {"create", "get", "update"} =>
                  IsTaskOf(response.body, mem)
            /\ response.op = "list" =>
                  \A i \in Positions(response.body) :
                      IsTaskOf(response.body[i], mem))
    /\ [][\A task_id \in TaskIds, payload \in TaskUpdate :
            (/\ get_tasks_store(get_mongo_db) = "memory"
             /\ IndexOf(mem, task_id) # 0
             /\ response'.op = "update"
             /\ response'.status = 200
             /\ update_task(task_id, payload)) =>
            LET k == IndexOf(mem, task_id)
            IN  /\ Len(mem') = Len(mem)
                /\ \A i \in Positions(mem) : i # k => mem'[i] = mem[i]
                /\ mem'[k]._id = task_id
                /\ mem'[k].title = IF payload.title # None
                                   THEN TheValue(payload.title) ELSE mem[k].title
                /\ mem'[k].description = IF payload.description # None
                                         THEN payload.description
                                         ELSE mem[k].description
                /\ mem'[k].completed = IF payload.completed # None
                                       THEN TheValue(payload.completed)
                                       ELSE mem[k].completed]_vars

\* C8 case: an in-memory update has answered with a task that carries the
\* title of one update and the completed flag of another.
C8_Witness ==
    /\ response.op = "update"
    /\ response.backend = "memory"
    /\ response.status = 200
    /\ response.body.title = "b"
    /\ response.body.completed = TRUE
    /\ response.body.updated_at > response.body.created_at

\* C9: a list response is in descending created_at order, and tasks with equal
\* created_at come in insertion order (ids are issued in creation order).
C9_ListStableDesc ==
    (response.op = "list" /\ response.status = 200) =>
        \A i, j \in Positions(response.body) :
            i < j =>
                \/ response.body[i].created_at > response.body[j].created_at
                \/ /\ response.body[i].created_at = response.body[j].created_at
                   /\ response.body[i].id < response.body[j].id

\* The collection of the committed store, and its full ordering: created_at
\* descending, ties in insertion order.
CommittedItems == IF get_tasks_store(get_mongo_db) = "memory" THEN mem ELSE col
FullOrdering == SerializeAll(SortDescStable(CommittedItems))

\* C10: list(limit, offset) answers with exactly the elements at positions
\* offset .. offset+limit-1 of the full ordering (none when offset is at
\* least the number of tasks).
C10_ListIsPageOfFullOrdering ==
    [][\A limit \in Limits, offset \in Offsets :
          (response'.op = "list" /\ response'.status = 200
              /\ list_tasks(limit, offset)) =>
              response'.body = Slice(FullOrdering, offset, limit)]_vars

\* The value a request body field asks a document to hold.
AskedDescription(body) == IF body.description.given = "value"
                          THEN {body.description.value} ELSE None
BothStamps == {"created_at", "updated_at"}

\* C11: an update of an existing task leaves each supplied field (title,
\* description, completed) at the supplied value (null for a description
\* supplied as null), each field the body leaves out, the id and created_at as
\* they were, and every other task unchanged. (Bodies that give null for title
\* or completed, which a Task cannot hold, are left aside.)
C11_UpdateChangesExactlySupplied ==
    [][\A task_id \in TaskIds, body \in RequestBodies :
          (/\ phase = "running"
           /\ IndexOf(CommittedItems, task_id) # 0
           /\ body.title.given # "null"
           /\ body.completed.given # "null"
           /\ TaskUpdate_validate(body).status = 200
           /\ \/ /\ get_tasks_store(get_mongo_db) = "memory"
                 /\ response'.op = "update"
                 /\ response'.status = 200
              \/ /\ get_tasks_store(get_mongo_db) = "mongo"
                 /\ response'.op = "none"
                 /\ inflight' # inflight
           /\ patch_task(task_id, body)) =>
          LET k == IndexOf(CommittedItems, task_id)
              old == CommittedItems[k]
              new == CommittedItems'[k]
          IN  /\ Len(CommittedItems') = Len(CommittedItems)
              /\ \A i \in Positions(CommittedItems) :
                    i # k => CommittedItems'[i] = CommittedItems[i]
              /\ new._id = old._id
              /\ new.created_at = old.created_at
              /\ new.title = IF body.title.given = "value"
                             THEN body.title.value ELSE old.title
              /\ new.description = IF body.description.given = "absent"
                                   THEN old.description ELSE AskedDescription(body)
              /\ new.completed = IF body.completed.given = "value"
                                 THEN body.completed.value ELSE old.completed]_vars

\* C12: every stored task has updated_at >= created_at, and every successful
\* update leaves the task's updated_at strictly later than it was. (A Mongo
\* update has succeeded in writing when update_one matched.)
C12_UpdatedAtAdvances ==
    /\ [](/\ \A k \in Positions(mem) : mem[k].updated_at >= mem[k].created_at
          /\ \A k \in Positions(col) : col[k].updated_at >= col[k].created_at)
    /\ [][\A task_id \in TaskIds :
            (/\ phase = "running"
             /\ IndexOf(CommittedItems, task_id) # 0
             /\ \/ /\ get_tasks_store(get_mongo_db) = "memory"
                   /\ response'.op = "update"
                   /\ response'.status = 200
                   /\ response'.body.id = task_id
                \/ /\ get_tasks_store(get_mongo_db) = "mongo"
                   /\ inflight'[task_id] = inflight[task_id] + 1) =>
            LET k == IndexOf(CommittedItems, task_id)
            IN  CommittedItems'[k].updated_at > CommittedItems[k].updated_at]_vars

\* Ids are unique across a collection.
UniqueIds(items) ==
    \A i, j \in Positions(items) : i # j => items[i]._id # items[j]._id

\* C13: ids are unique across each collection in every state; a create with a
\* valid body answers with a Task whose created_at equals its updated_at, whose
\* title, description and completed are the body's (description null and
\* completed false when left out), and whose id is neither an id issued before
\* nor the id of a task in the collection.
C13_CreateFreshAndFaithful ==
    /\ [](UniqueIds(mem) /\ UniqueIds(col))
    /\ [][(response'.op = "create" /\ response'.status = 200) =>
            /\ response'.body.created_at = response'.body.updated_at
            /\ response'.body.id >= next_id
            /\ IndexOf(CommittedItems, response'.body.id) = 0
            /\ IndexOf(CommittedItems', response'.body.id) # 0
            /\ \A body \in RequestBodies :
                  (TaskCreate_validate(body).status = 200 /\ post_tasks(body)) =>
                      /\ response'.body.title = body.title.value
                      /\ response'.body.description = AskedDescription(body)
                      /\ response'.body.completed = (body.completed.given = "value"
                                                     /\ body.completed.value)]_vars

\* C13 case: a second task has been created beside the first, with a title of
\* 200 characters and completed left out.
C13_Witness ==
    /\ response.op = "create"
    /\ response.status = 200
    /\ response.body.id = 2
    /\ Len(response.body.title) = TitleMaxLength
    /\ response.body.completed = FALSE
    /\ Len(CommittedItems) = 2

\* C14: a get that directly follows the create of a task answers with a Task
\* equal to the one create returned, and a list of the whole collection that
\* directly follows the create contains that Task.
C14_CreatedTaskReadBack ==
    [][(response.op = "create" /\ response.status = 200 /\ response'.status = 200) =>
          /\ (response'.op = "get" /\ response'.body.id = response.body.id) =>
                response'.body = response.body
          /\ (response'.op = "list"
                /\ Len(response'.body) = Len(CommittedItems)) =>
                \E i \in Positions(response'.body) :
                    response'.body[i] = response.body]_vars

\* C15: a task that is not in the collection stays out of it (ids are not
\* issued twice), lists show only tasks of the collection, a successful
\* delete takes its task out, and a get, update or delete of an id that is not
\* in the collection (deleted or never created) is answered 404 and leaves the
\* collection as it was. (On the Mongo store: while the server answers.)
C15_AbsentStaysAbsent ==
    /\ []((response.op = "list" /\ response.status = 200) =>
            \A i \in Positions(response.body) :
                IndexOf(CommittedItems, response.body[i].id) # 0)
    /\ [][phase = "running" /\ phase' = "running" =>
            /\ \A task_id \in TaskIds :
                  (IndexOf(CommittedItems, task_id) = 0 /\ task_id < next_id) =>
                      IndexOf(CommittedItems', task_id) = 0
            /\ (response'.op \in {"get", "update", "delete"}
                  /\ response'.status = 200) =>
                  /\ IndexOf(CommittedItems, response'.body.id) # 0
                  /\ response'.op = "delete" =>
                        IndexOf(CommittedItems', response'.body.id) = 0
            /\ \A task_id \in TaskIds, payload \in TaskUpdate :
                  (/\ IndexOf(CommittedItems, task_id) = 0
                   /\ get_tasks_store(get_mongo_db) = "memory" \/ reachable
                   /\ response'.status # 200
                   /\ \/ get_task(task_id)
                      \/ update_task(task_id, payload)
                      \/ delete_task(task_id)) =>
                  /\ response'.status = 404
                  /\ response'.error = "NotFound"
                  /\ mem' = mem
                  /\ col' = col]_vars

\* C15 case: the only task of the in-memory store was deleted and a later get
\* of its id was answered 404.
C15_Witness ==
    /\ phase = "running"
    /\ get_tasks_store(get_mongo_db) = "memory"
    /\ next_id = 2
    /\ mem = <<>>
    /\ response.op = "get"
    /\ response.status = 404

\* A body that violates a field bound.
ViolatesBound(body) ==
    \/ /\ body.title.given = "value"
       /\ Len(body.title.value) = 0 \/ Len(body.title.value) > 200
    \/ /\ body.description.given = "value"
       /\ Len(body.description.value) > 4000

\* A create body at the bounds: a title of 1 or 200 characters, a description
\* left out, null or of at most 4000 characters, completed not null.
WithinBounds(body) ==
    /\ body.title.given = "value"
    /\ Len(body.title.value) \in {1, 200}
    /\ body.description.given = "value" => Len(body.description.value) <= 4000
    /\ body.completed.given # "null"

\* C16: a body that violates a bound is rejected by validation, for create and
\* for update, and no stored task violates a bound; a rejected request is
\* answered 422 and leaves both collections as they were; no request with a
\* violating body gets any other answer than 422 (in particular not 404, when
\* the id of an update does not exist); a body within the bounds passes
\* validation.
C16_ValidationAtTheBoundary ==
    /\ [](/\ \A body \in RequestBodies :
                /\ ViolatesBound(body) =>
                      /\ TaskCreate_validate(body).status = 422
                      /\ TaskUpdate_validate(body).status = 422
                /\ WithinBounds(body) =>
                      /\ TaskCreate_validate(body).status = 200
                      /\ TaskUpdate_validate(body).status = 200
          /\ \A k \in Positions(CommittedItems) :
                /\ Len(CommittedItems[k].title) \in 1..200
                /\ CommittedItems[k].description # None =>
                      Len(TheValue(CommittedItems[k].description)) <= 4000)
    /\ [][/\ response'.status = 422 =>
                /\ mem' = mem /\ col' = col /\ next_id' = next_id
                /\ inflight' = inflight
          /\ response'.status \in {0, 404, 500} =>
                ~ \E body \in RequestBodies :
                      /\ ViolatesBound(body)
                      /\ \/ post_tasks(body)
                         \/ \E task_id \in TaskIds : patch_task(task_id, body)]_vars

\* C16 case: an update with a title of 201 characters, naming an id that does
\* not exist, was rejected while a task with a 200-character title and a
\* 4000-character description is stored.
C16_Witness ==
    /\ response.op = "update"
    /\ response.status = 422
    /\ Len(CommittedItems) = 1
    /\ Len(CommittedItems[1].title) = 200
    /\ CommittedItems[1].description # None
    /\ Len(TheValue(CommittedItems[1].description)) = 4000

\* C17: every health response is a report with status "ok" (never an error),
\* whatever the committed backend and the outcome of the probe; while the
\* server is unreachable the report says mongodb_ok = false.
C17_HealthNeverFails ==
    response.op = "health" =>
        /\ response.status = 200
        /\ response.body.status = "ok"
        /\ response.body.mongodb_ok \in BOOLEAN
        /\ ~reachable => response.body.mongodb_ok = FALSE

\* C17 case: the durable store is committed, the server is down, and health
\* has answered a report.
C17_Witness ==
    /\ phase = "running"
    /\ startup_ok
    /\ ~reachable
    /\ response.op = "health"
    /\ response.status = 200
    /\ response.body.status = "ok"
    /\ response.body.mongodb_configured = TRUE
    /\ response.body.mongodb_ok = FALSE

\* C18: ping never raises, and gives true exactly when the manager holds a
\* handle and the ping command succeeds; startup and health see that value.
C18_PingTotal ==
    /\ ping(mongo_manager, reachable).status = 200
    /\ ping(mongo_manager, reachable).body = (get_mongo_db # None /\ reachable)
    /\ phase = "running" => (startup_ok => get_mongo_db # None)
    /\ response.op = "health" =>
          response.body.mongodb_ok = (get_mongo_db # None /\ reachable)

\* C18 case: a handle is held, the command fails, and ping gives false.
C18_Witness ==
    /\ phase = "running"
    /\ get_mongo_db # None
    /\ ~reachable
    /\ ping(mongo_manager, reachable) = Ok(FALSE)

\* C19: on the Mongo store a list request leaves the collection alone, only
\* ever adds the two indexes (none once both exist), and is answered by the
\* list query whether or not an index creation failed: with one of the
\* query's results while the server answers, with the query's own error while
\* it does not.
C19_IndexesBestEffort ==
    /\ [](indexes \subseteq BothStamps)
    /\ [][(phase = "running" /\ get_tasks_store(get_mongo_db) = "mongo"
              /\ response'.op = "list") =>
            /\ col' = col
            /\ indexes \subseteq indexes'
            /\ indexes = BothStamps => indexes' = indexes
            /\ reachable =>
                  /\ response'.status = 200
                  /\ \E order \in MongoSortOrders(col) :
                        \E limit \in Limits, offset \in Offsets :
                            response'.body = SerializeAll(Slice(order, offset, limit))
            /\ ~reachable =>
                  (response'.status = 500 /\ response'.error = "DriverError")]_vars

\* C19 case: the second index could not be created, and the list request was
\* answered with a task all the same.
C19_Witness ==
    /\ indexes = {"created_at"}
    /\ response.op = "list"
    /\ response.backend = "mongo"
    /\ response.status = 200
    /\ Len(response.body) = 1

\* The timeout each setting of the variable must give, worked out by hand.
ExpectedTimeoutMs(raw) ==
    IF raw = None THEN 500
    ELSE CASE TheValue(raw) = "0" -> 50
           [] TheValue(raw) = "-5" -> 50
           [] TheValue(raw) = "49" -> 50
           [] TheValue(raw) = "50" -> 50
           [] TheValue(raw) = "51" -> 51
           [] TheValue(raw) = " 70 " -> 70
           [] TheValue(raw) = "+7" -> 50
           [] TheValue(raw) = "1000" -> 1000
           [] OTHER -> 500

\* C20: the serverSelectionTimeoutMS of the client is max(50, n) when the
\* variable parses as the integer n, 500 when it is unset or does not parse,
\* and never below 50.
C20_TimeoutFloorAndDefault ==
    /\ timeout_ms(env_timeout) = ExpectedTimeoutMs(env_timeout)
    /\ timeout_ms(env_timeout) >= 50
    /\ mongo_manager._client # None =>
          TheValue(mongo_manager._client).serverSelectionTimeoutMS
              = ExpectedTimeoutMs(env_timeout)

\* C20 case: the variable holds a negative number and the client got 50.
C20_Witness ==
    /\ phase = "running"
    /\ env_timeout = Some("-5")
    /\ mongo_manager._client # None
    /\ TheValue(mongo_manager._client).serverSelectionTimeoutMS = 50

\* C21: an update whose body gives description as null leaves the stored
\* description as it was, on both stores; and no step takes a task of the
\* committed collection from a non-null description to a null one.
C21_NullDescriptionKeepsPrior ==
    /\ [](\A body \in RequestBodies :
             body.description.given = "null" =>
                 TaskUpdate_validate(body)
                    = TaskUpdate_validate([body EXCEPT !.description = Absent("")]))
    /\ [][(phase = "running" /\ (mem' # mem \/ col' # col)) =>
          /\ \A task_id \in TaskIds :
                (/\ IndexOf(CommittedItems, task_id) # 0
                 /\ IndexOf(CommittedItems', task_id) # 0
                 /\ CommittedItems[IndexOf(CommittedItems, task_id)].description
                       # None) =>
                    CommittedItems'[IndexOf(CommittedItems', task_id)].description
                       # None
          /\ \A task_id \in TaskIds :
                \/ IndexOf(CommittedItems, task_id) = 0
                \/ IndexOf(CommittedItems', task_id) = 0
                \/ CommittedItems'[IndexOf(CommittedItems', task_id)].description
                      = CommittedItems[IndexOf(CommittedItems, task_id)].description
                \/ \A body \in RequestBodies :
                      ~ /\ body.description.given = "null"
                        /\ TaskUpdate_validate(body).status = 200
                        /\ \/ /\ get_tasks_store(get_mongo_db) = "memory"
                              /\ response'.op = "update"
                              /\ response'.status = 200
                           \/ /\ get_tasks_store(get_mongo_db) = "mongo"
                              /\ response'.op = "none"
                              /\ inflight' # inflight
                        /\ patch_task(task_id, body)]_vars

\* C21 case: an in-memory update gave the task a title of 200 characters and
\* completed = true (a body that also gives description as null does exactly
\* this), and the task still has its description.
C21_Witness ==
    /\ response.op = "update"
    /\ response.backend = "memory"
    /\ response.status = 200
    /\ Len(response.body.title) = TitleMaxLength
    /\ response.body.completed = TRUE
    /\ response.body.description = Some("d")
    /\ mem[IndexOf(mem, response.body.id)].description = Some("d")

\* C22: the Task a MongoTasksStore.update call returns carries, for every field
\* the call's payload gave, the value it gave, and the updated_at the call
\* wrote, whatever other updates of the same id ran between its two awaits.
C22_UpdateReturnsOwnWrite ==
    \A c \in CallIds :
        (calls[c].pc = "returned" /\ calls[c].result.status = 200) =>
            LET task == calls[c].result.body
                payload == calls[c].payload
            IN  /\ payload.title # None => task.title = TheValue(payload.title)
                /\ payload.description # None => task.description = payload.description
                /\ payload.completed # None =>
                      task.completed = TheValue(payload.completed)
                /\ task.updated_at
                      = BsonDate(TheValue(calls[c].update_doc.updated_at))

====
